---------------------------- MODULE Spec2Model ----------------------------
(***************************************************************************)
(* A model of the zksol guest: the input serializer (serializer.rs), the   *)
(* compute meter, the syscalls and the run sequence of main (main.rs,      *)
(* syscalls.rs).                                                           *)
(*                                                                         *)
(* Two specifications share the definitions:                               *)
(*   SpecSer  Serializer::serialize_parameters on bounded account inputs,  *)
(*            one step per position of the function;                       *)
(*   Spec     one run of main: setup, the VM engine invoking syscalls and  *)
(*            charging the meter, the report of the outcome.               *)
(*                                                                         *)
(* TLC integers are 32 bits wide.  u64 values of the program are modelled  *)
(* by the naturals below 2^31; the inputs are drawn so that no reachable   *)
(* value leaves that range, and the virtual address space keeps the        *)
(* engine's layout (one region slot per MM_REGION_SIZE) with a smaller     *)
(* slot size, see MM_REGION_SIZE.                                          *)
(***************************************************************************)
EXTENDS Integers, Sequences, FiniteSets, TLC

VARIABLES
    \* ---- serializer (serialize_parameters) ----
    build,               \* "debug" | "release": whether debug_assert! is compiled in
    accounts,            \* the accounts argument
    instruction_data,    \* the instruction_data argument
    program_id,          \* the program_id argument (32 bytes)
    s,                   \* the Serializer value
    serialized_accounts, \* Vec<VmSerializedAccount>
    spc,                 \* position inside serialize_parameters
    next_account,        \* index of the account the write loop is at
    \* ---- one run of main ----
    pc,                  \* position inside main
    registry,            \* the loader's syscall table: ABI name -> implementation
    ro_region,           \* what the loader returned: [vm_addr, len]
    gapped,              \* the stack region is built with frame gaps
    regions,             \* Vec<MemoryRegion> built by main
    freed,               \* backing buffers that have been dropped
    mem,                 \* bytes stored by syscalls: buffer -> (offset -> byte)
    context,             \* SolanaContext
    call,                \* the last syscall invocation and its result
    ncalls,              \* number of engine steps taken
    result,              \* what execute_program returned: "none" | "ok" | "err"
    committed            \* journal: sequence of committed booleans

servars == <<build, accounts, instruction_data, program_id, s,
             serialized_accounts, spc, next_account>>
runvars == <<pc, registry, ro_region, gapped, regions, freed, mem, context, call,
             ncalls, result, committed>>
vars == <<servars, runvars>>

---------------------------------------------------------------------------
(* Bounds of the model *)

\* longest account sequence given to serialize_parameters
MaxAccounts == 3
\* number of engine steps (syscalls, meter charges) in one run
MaxCalls == 2
\* longest byte range a syscall is invoked with
MaxLen == 2

---------------------------------------------------------------------------
(* Program constants *)

BPF_ALIGN_OF_U128 == 8
NON_DUP_MARKER == 255
MAX_PERMITTED_DATA_INCREASE == 10240
\* solana_sbpf::ebpf: one region slot of the virtual address space.  The
\* engine's value is 2^32; TLC cannot represent it, and 2^28 keeps every
\* relation the program relies on (each buffer of a run is far smaller).
MM_REGION_SIZE == 268435456
MM_RODATA_START == MM_REGION_SIZE
MM_STACK_START == 2 * MM_REGION_SIZE
MM_HEAP_START == 3 * MM_REGION_SIZE
MM_INPUT_START == 4 * MM_REGION_SIZE
\* size_of::<Pubkey>()
PUBKEY_BYTES == 32
\* Config::default(): stack_frame_size and max_call_depth
STACK_FRAME_SIZE == 4096
MAX_CALL_DEPTH == 64
\* main: heap_size and the compute budget
HEAP_SIZE == 32 * 1024
COMPUTE_BUDGET == 200000

---------------------------------------------------------------------------
(* Bytes and integers *)

Min(a, b) == IF a <= b THEN a ELSE b

Zeros(n) == [i \in 1..n |-> 0]

\* u64::to_le followed by the byte-wise store of write_unchecked
RECURSIVE LeBytes(_, _)
LeBytes(v, n) == IF n = 0 THEN <<>> ELSE <<v % 256>> \o LeBytes(v \div 256, n - 1)

\* bool as u8
BoolByte(b) == IF b THEN 1 ELSE 0

\* <*const u8>::align_offset(align): bytes to add to reach the next multiple
AlignOffset(addr, align) == (align - (addr % align)) % align

---------------------------------------------------------------------------
(* runtime.rs: Pubkey and Account *)

BS58_ALPHABET == <<"1","2","3","4","5","6","7","8","9",
                   "A","B","C","D","E","F","G","H","J","K","L","M","N","P","Q",
                   "R","S","T","U","V","W","X","Y","Z",
                   "a","b","c","d","e","f","g","h","i","j","k","m","n","o","p",
                   "q","r","s","t","u","v","w","x","y","z">>

\* the text main parses: "zkRXxvKMqQYgPRAkBHwYKCvnF8YjVtXW1BK4VCXpkeo"
PROGRAM_ID_TEXT == <<"z","k","R","X","x","v","K","M","q","Q","Y","g","P","R","A",
                     "k","B","H","w","Y","K","C","v","n","F","8","Y","j","V","t",
                     "X","W","1","B","K","4","V","C","X","p","k","e","o">>

Bs58Digit(c) == IF \E i \in 1..Len(BS58_ALPHABET) : BS58_ALPHABET[i] = c
                THEN (CHOOSE i \in 1..Len(BS58_ALPHABET) : BS58_ALPHABET[i] = c) - 1
                ELSE -1

\* bytes (little-endian, no leading zeros) * 58 + carry
RECURSIVE Bs58MulAdd(_, _)
Bs58MulAdd(le, carry) ==
    IF le = <<>>
    THEN IF carry = 0 THEN <<>> ELSE <<carry % 256>> \o Bs58MulAdd(<<>>, carry \div 256)
    ELSE LET v == Head(le) * 58 + carry
         IN  <<v % 256>> \o Bs58MulAdd(Tail(le), v \div 256)

RECURSIVE Bs58Value(_, _)
Bs58Value(text, le) ==
    IF text = <<>> THEN le
    ELSE Bs58Value(Tail(text), Bs58MulAdd(le, Bs58Digit(Head(text))))

RECURSIVE LeadingOnes(_)
LeadingOnes(text) ==
    IF text # <<>> /\ Head(text) = "1" THEN 1 + LeadingOnes(Tail(text)) ELSE 0

Reverse(q) == [i \in 1..Len(q) |-> q[Len(q) + 1 - i]]

\* bs58::decode(..).into_vec(): Err on a character outside the alphabet
Bs58Decode(text) ==
    IF \E i \in 1..Len(text) : Bs58Digit(text[i]) < 0
    THEN [ok |-> FALSE, bytes |-> <<>>]
    ELSE LET k == LeadingOnes(text)
         IN  [ok |-> TRUE,
              bytes |-> Zeros(k) \o Reverse(Bs58Value(SubSeq(text, k + 1, Len(text)), <<>>))]

\* Pubkey::try_from(String): Err unless the text decodes to exactly 32 bytes
PubkeyTryFrom(text) ==
    LET d == Bs58Decode(text)
    IN  IF d.ok /\ Len(d.bytes) = PUBKEY_BYTES THEN d ELSE [ok |-> FALSE, bytes |-> <<>>]

\* a Pubkey whose bytes are b, b+1, ...
Key(b) == [i \in 1..PUBKEY_BYTES |-> (b + i - 1) % 256]

Account(pubkey, is_signer, is_writable, lamports, data, owner, executable, rent_epoch) ==
    [pubkey |-> pubkey, is_signer |-> is_signer, is_writable |-> is_writable,
     lamports |-> lamports, data |-> data, owner |-> owner,
     executable |-> executable, rent_epoch |-> rent_epoch]

---------------------------------------------------------------------------
(* serializer.rs: Serializer *)

\* Serializer::new: AlignedMemory::with_capacity(size), no region yet
new(size, start_addr) ==
    [capacity |-> size, buffer |-> <<>>, regions |-> <<>>, vaddr |-> start_addr,
     region_start |-> 0, overrun |-> FALSE, status |-> "ok"]

\* AlignedMemory::write_unchecked / write_all_unchecked.  The caller promises
\* that the bytes fit the capacity.  When they do not, a build with
\* debug_assert! stops; a build without it stores the bytes past the
\* capacity (recorded in overrun).
unchecked_store(ser, bytes) ==
    IF ser.status # "ok" THEN ser
    ELSE IF Len(ser.buffer) + Len(bytes) > ser.capacity /\ build = "debug"
    THEN [ser EXCEPT !.status = "panic"]
    ELSE [ser EXCEPT !.buffer = ser.buffer \o bytes,
                     !.overrun = ser.overrun \/ (Len(ser.buffer) + Len(bytes) > ser.capacity)]

\* current_vaddr without the length of the buffer
current_vaddr_of_region(ser) == ser.vaddr - ser.region_start

\* the virtual address write / write_all return
current_vaddr(ser) == ser.vaddr + Len(ser.buffer) - ser.region_start

\* Serializer::fill: AlignedMemory::fill_write is checked against the capacity
fill(ser, num, value) ==
    IF ser.status # "ok" THEN ser
    ELSE IF Len(ser.buffer) + num > ser.capacity
    THEN [ser EXCEPT !.status = "err"]
    ELSE [ser EXCEPT !.buffer = ser.buffer \o [i \in 1..num |-> value]]

\* Serializer::debug_assert_alignment::<T>, compiled in debug builds only
debug_assert_alignment(ser, align) ==
    IF ser.status = "ok" /\ build = "debug" /\ Len(ser.buffer) % align # 0
    THEN [ser EXCEPT !.status = "panic"]
    ELSE ser

\* Serializer::write::<T>: bytes is the value's representation, align its align_of
write(ser, bytes, align) == unchecked_store(debug_assert_alignment(ser, align), bytes)

\* Serializer::write_all
write_all(ser, bytes) == unchecked_store(ser, bytes)

\* Serializer::push_region
push_region(ser) ==
    IF ser.status # "ok" THEN ser
    ELSE LET len == Len(ser.buffer) - ser.region_start
         IN  [ser EXCEPT !.regions = Append(ser.regions,
                              [vm_addr |-> ser.vaddr, len |-> len, span |-> len,
                               gap |-> 0, writable |-> TRUE, buffer |-> "input"]),
                         !.region_start = Len(ser.buffer),
                         !.vaddr = ser.vaddr + len]

\* Serializer::finish
finish(ser) == push_region(ser)

\* write_account without the alignment bytes
write_account_unaligned(ser, account) ==
    LET s1 == write_all(ser, account.data)
        s2 == fill(s1, MAX_PERMITTED_DATA_INCREASE, 0)
    IN  IF s2.status = "err" THEN [s2 EXCEPT !.status = "panic"] ELSE s2

\* write_account without the growth padding and the alignment bytes
write_account_no_padding(ser, account) == write_all(ser, account.data)

\* Serializer::write_account: the data, then the growth padding; .expect() of fill
write_account(ser, account) ==
    LET s1 == write_all(ser, account.data)
        align_offset == AlignOffset(Len(s1.buffer), BPF_ALIGN_OF_U128)
        s2 == fill(s1, MAX_PERMITTED_DATA_INCREASE + align_offset, 0)
    IN  IF s2.status = "err" THEN [s2 EXCEPT !.status = "panic"] ELSE s2

\* the address write_account returns
write_account_addr(ser) == ser.vaddr + Len(ser.buffer)

\* serialize_parameters, the size pass: one iteration of the loop
size_of_account(size, account) ==
    size + 1 + 1 + 1 + 1 + 4 + PUBKEY_BYTES + PUBKEY_BYTES + 8 + 8 + 8
         + Len(account.data)
         + MAX_PERMITTED_DATA_INCREASE
         + AlignOffset(size, BPF_ALIGN_OF_U128)

RECURSIVE size_of_accounts(_, _)
size_of_accounts(size, accts) ==
    IF accts = <<>> THEN size
    ELSE size_of_accounts(size_of_account(size, Head(accts)), Tail(accts))

\* serialize_parameters, lines 123-143
size_pass(accts, idata) ==
    size_of_accounts(8, accts) + 8 + Len(idata) + PUBKEY_BYTES

\* serialize_parameters, lines 145-149: the Serializer and the account count
begin_write(accts, idata) ==
    write(new(size_pass(accts, idata), MM_INPUT_START), LeBytes(Len(accts), 8), 8)

\* serialize_parameters, lines 151-162: one iteration of the write loop
serialize_account(ser, account) ==
    LET s1 == write(ser, <<NON_DUP_MARKER>>, 1)
        s2 == write(s1, <<BoolByte(account.is_signer)>>, 1)
        s3 == write(s2, <<BoolByte(account.is_writable)>>, 1)
        s4 == write(s3, <<BoolByte(account.executable)>>, 1)
        s5 == write_all(s4, <<0, 0, 0, 0>>)
        s6 == write_all(s5, account.pubkey)
        s7 == write_all(s6, account.owner)
        s8 == write(s7, LeBytes(account.lamports, 8), 8)
        s9 == write(s8, LeBytes(Len(account.data), 8), 8)
        s10 == write_account(s9, account)
        s11 == write(s10, LeBytes(account.rent_epoch, 8), 8)
    IN  [ser |-> s11,
         handle |-> [public_key_addr |-> current_vaddr(s5),
                     owner_key_addr |-> current_vaddr(s6),
                     lamports_addr |-> current_vaddr(s7),
                     data_addr |-> write_account_addr(s9),
                     original_data_len |-> Len(account.data)]]

\* serialize_parameters, lines 173-176
end_write(ser, idata, pid) ==
    finish(write_all(write_all(write(ser, LeBytes(Len(idata), 8), 8), idata), pid))

RECURSIVE serialize_accounts(_, _, _)
serialize_accounts(ser, accts, handles) ==
    IF accts = <<>> THEN [ser |-> ser, handles |-> handles]
    ELSE LET r == serialize_account(ser, Head(accts))
         IN  serialize_accounts(r.ser, Tail(accts), Append(handles, r.handle))

\* Serializer::serialize_parameters as one call
serialize_parameters(accts, idata, pid) ==
    LET r == serialize_accounts(begin_write(accts, idata), accts, <<>>)
    IN  [ser |-> end_write(r.ser, idata, pid), handles |-> r.handles]

---------------------------------------------------------------------------
(* main.rs: SolanaContext *)

\* consume_compute_units without the clamp: the whole request is added
consume_compute_units_unclamped(ctx, units) ==
    [compute_units_remaining |->
         IF units >= ctx.compute_units_remaining THEN 0
         ELSE ctx.compute_units_remaining - units,
     compute_units_consumed |-> ctx.compute_units_consumed + units]

\* consume_compute_units that lowers remaining and does not count the units
consume_compute_units_uncounted(ctx, units) ==
    [compute_units_remaining |->
         IF units >= ctx.compute_units_remaining THEN 0
         ELSE ctx.compute_units_remaining - units,
     compute_units_consumed |-> ctx.compute_units_consumed]

\* SolanaContext::consume_compute_units
consume_compute_units(ctx, units) ==
    LET consumed == Min(units, ctx.compute_units_remaining)
    IN  [compute_units_remaining |->
             IF units >= ctx.compute_units_remaining THEN 0
             ELSE ctx.compute_units_remaining - units,
         compute_units_consumed |-> ctx.compute_units_consumed + consumed]

\* SolanaContext::consume_gas
consume_gas(ctx, units) == consume_compute_units(ctx, units)

\* ContextObject::consume
consume(ctx, amount) == consume_compute_units(ctx, amount)

\* ContextObject::get_remaining
get_remaining(ctx) == ctx.compute_units_remaining

---------------------------------------------------------------------------
(* The memory of a run: regions over backing buffers *)

\* bytes of the executable's read-only section (any bytes; these are fixed)
RoByte(off) == (off * 37 + 200) % 256

\* what a buffer holds when its region is created
InitialByte(buf, off) ==
    CASE buf = "code" -> RoByte(off)
      [] buf = "input" -> IF off < Len(s.buffer) THEN s.buffer[off + 1] ELSE 0
      [] OTHER -> 0

\* the byte a live buffer holds at off
ByteAt(m, buf, off) ==
    IF off \in DOMAIN m[buf] THEN m[buf][off] ELSE InitialByte(buf, off)

BytesAt(m, buf, off, n) == [i \in 1..n |-> ByteAt(m, buf, off + i - 1)]

\* m with bytes stored at off of buf; only bytes that differ from the buffer's
\* initial content are kept
Store(m, buf, off, bytes) ==
    LET val(o) == IF o >= off /\ o < off + Len(bytes) THEN bytes[o - off + 1]
                  ELSE ByteAt(m, buf, o)
        dom == { o \in DOMAIN m[buf] \cup (off .. (off + Len(bytes) - 1)) :
                    val(o) # InitialByte(buf, o) }
    IN  [m EXCEPT ![buf] = [o \in dom |-> val(o)]]

\* byte values a read of released memory may yield
ByteSamples == {65, 255}

\* the byte sequences a read of n bytes at off of buf may yield: the content
\* of a live buffer, anything for a buffer that has been dropped
ReadChoices(m, buf, off, n) ==
    IF buf \in freed /\ n > 0 THEN [1..n -> ByteSamples]
    ELSE {BytesAt(m, buf, off, n)}

\* MemoryRegion::vm_to_host: the offset into the backing buffer of virtual
\* offset o of region r; with frame gaps every second gap-sized block of the
\* virtual range is unmapped
InGap(r, o) == r.gap > 0 /\ (o \div r.gap) % 2 = 1
HostOffset(r, o) == IF r.gap > 0 THEN ((o \div (2 * r.gap)) * r.gap) + (o % r.gap) ELSE o

\* MemoryMapping::map(access, vm_addr, len): the region whose slot holds
\* vm_addr must contain the whole range and allow the access
Map(access, vm_addr, len) ==
    LET below == { i \in 1..Len(regions) : regions[i].vm_addr <= vm_addr }
    IN  IF below = {} THEN [ok |-> FALSE]
        ELSE LET i == CHOOSE j \in below : \A k \in below : regions[k].vm_addr <= regions[j].vm_addr
                 r == regions[i]
                 o == vm_addr - r.vm_addr
             IN  IF /\ access = "Load" \/ r.writable
                    /\ ~InGap(r, o)
                    /\ HostOffset(r, o) + len <= r.len
                 THEN [ok |-> TRUE, buffer |-> r.buffer, off |-> HostOffset(r, o)]
                 ELSE [ok |-> FALSE]

\* MemoryMapping::new: Err when two regions overlap in virtual address space
Overlap(r1, r2) == r1.vm_addr < r2.vm_addr + r2.span /\ r2.vm_addr < r1.vm_addr + r1.span

MemoryMappingNew(regs) ==
    ~ \E i, j \in 1..Len(regs) : i < j /\ Overlap(regs[i], regs[j])

---------------------------------------------------------------------------
(* syscalls.rs: the syscalls.  Each operator gives the set of outcomes of   *)
(* one invocation in the current state: the context and memory it leaves,   *)
(* how it ended (status) and the u64 it returned.                           *)

\* i32 as u64: sign extension, as the 8 bytes of the u64 (little-endian)
I32AsU64(r) ==
    IF r >= 0 THEN LeBytes(r, 8)
    ELSE LET inv == LeBytes(-(r + 1), 8) IN [i \in 1..8 |-> 255 - inv[i]]

\* str::from_utf8(..).is_ok()
Cont(b) == b >= 128 /\ b <= 191
RECURSIVE Utf8Valid(_)
Utf8Valid(b) ==
    IF b = <<>> THEN TRUE
    ELSE LET n == Len(b)
             b1 == b[1]
             Rest(k) == Utf8Valid(SubSeq(b, k + 1, n))
         IN  CASE b1 < 128 -> Rest(1)
               [] b1 >= 194 /\ b1 <= 223 -> n >= 2 /\ Cont(b[2]) /\ Rest(2)
               [] b1 = 224 -> n >= 3 /\ b[2] >= 160 /\ b[2] <= 191 /\ Cont(b[3]) /\ Rest(3)
               [] (b1 >= 225 /\ b1 <= 236) \/ b1 = 238 \/ b1 = 239 ->
                     n >= 3 /\ Cont(b[2]) /\ Cont(b[3]) /\ Rest(3)
               [] b1 = 237 -> n >= 3 /\ b[2] >= 128 /\ b[2] <= 159 /\ Cont(b[3]) /\ Rest(3)
               [] b1 = 240 -> n >= 4 /\ b[2] >= 144 /\ b[2] <= 191 /\ Cont(b[3])
                                     /\ Cont(b[4]) /\ Rest(4)
               [] b1 >= 241 /\ b1 <= 243 -> n >= 4 /\ Cont(b[2]) /\ Cont(b[3])
                                                    /\ Cont(b[4]) /\ Rest(4)
               [] b1 = 244 -> n >= 4 /\ b[2] >= 128 /\ b[2] <= 143 /\ Cont(b[3])
                                     /\ Cont(b[4]) /\ Rest(4)
               [] OTHER -> FALSE

Outcome(ctx, m, status, ret, slice1, slice2) ==
    [context |-> ctx, mem |-> m, status |-> status, ret |-> ret,
     slice1 |-> slice1, slice2 |-> slice2]

\* an Err of a failed address resolution, with the text the syscall gives it
Fault(ctx, m, text) ==
    [context |-> ctx, mem |-> m, status |-> text, ret |-> <<>>,
     slice1 |-> <<>>, slice2 |-> <<>>]

FaultTexts == {"Destination memory mapping failed", "Source memory mapping failed",
               "Memory mapping failed", "First memory mapping failed",
               "Second memory mapping failed"}

Ok0 == LeBytes(0, 8)
NoRet == <<>>

\* SyscallLog: the mapping result is unwrapped, the text is returned as Err
SyscallLog(addr, len) ==
    LET ctx == consume_gas(context, 1)
        host == Map("Load", addr, len)
    IN  IF ~host.ok THEN {Outcome(ctx, mem, "panic", NoRet, <<>>, <<>>)}
        ELSE { Outcome(ctx, mem, IF Utf8Valid(b) THEN "ok" ELSE "Invalid UTF-8 in log message",
                       IF Utf8Valid(b) THEN Ok0 ELSE NoRet, b, <<>>) :
               b \in ReadChoices(mem, host.buffer, host.off, len) }

\* SyscallAbort charging one unit as SyscallLog does
SyscallAbort_charging(arg1, arg2, arg3) ==
    {Outcome(consume_gas(context, 1), mem, "Program aborted", NoRet, <<>>, <<>>)}

\* SyscallAbort
SyscallAbort(arg1, arg2, arg3) ==
    {Outcome(context, mem, "Program aborted", NoRet, <<>>, <<>>)}

\* ptr::copy: the source is read whole, then stored
CopyOutcomes(ctx, dst, src, n) ==
    { Outcome(ctx, Store(mem, dst.buffer, dst.off, b), "ok", Ok0, b, <<>>) :
      b \in ReadChoices(mem, src.buffer, src.off, n) }

\* a byte-by-byte forward copy inside one buffer
RECURSIVE ForwardCopy(_, _, _, _, _)
ForwardCopy(m, buf, d, so, n) ==
    IF n = 0 THEN m
    ELSE ForwardCopy(Store(m, buf, d, <<ByteAt(m, buf, so)>>), buf, d + 1, so + 1, n - 1)

RangesOverlap(dst, src, n) ==
    /\ n > 0
    /\ dst.buffer = src.buffer
    /\ dst.off < src.off + n
    /\ src.off < dst.off + n

\* SyscallMemcpy charging only once both ranges have resolved
SyscallMemcpy_charge_after(dst_addr, src_addr, n) ==
    LET ctx == consume_gas(context, n)
        dst == Map("Store", dst_addr, n)
        src == Map("Load", src_addr, n)
    IN  IF ~dst.ok THEN {Fault(context, mem, "Destination memory mapping failed")}
        ELSE IF ~src.ok THEN {Fault(context, mem, "Source memory mapping failed")}
        ELSE CopyOutcomes(ctx, dst, src, n)

\* SyscallMemcpy.  ptr::copy_nonoverlapping on overlapping ranges is undefined:
\* it may copy as ptr::copy does or byte by byte from the front
SyscallMemcpy(dst_addr, src_addr, n) ==
    LET ctx == consume_gas(context, n)
        dst == Map("Store", dst_addr, n)
        src == Map("Load", src_addr, n)
    IN  IF ~dst.ok THEN {Fault(ctx, mem, "Destination memory mapping failed")}
        ELSE IF ~src.ok THEN {Fault(ctx, mem, "Source memory mapping failed")}
        ELSE CopyOutcomes(ctx, dst, src, n) \cup
             (IF RangesOverlap(dst, src, n) /\ dst.buffer \notin freed
              THEN {Outcome(ctx, ForwardCopy(mem, dst.buffer, dst.off, src.off, n), "ok",
                            Ok0, BytesAt(mem, src.buffer, src.off, n), <<>>)}
              ELSE {})

\* SyscallMemmove
SyscallMemmove(dst_addr, src_addr, n) ==
    LET ctx == consume_gas(context, n)
        dst == Map("Store", dst_addr, n)
        src == Map("Load", src_addr, n)
    IN  IF ~dst.ok THEN {Fault(ctx, mem, "Destination memory mapping failed")}
        ELSE IF ~src.ok THEN {Fault(ctx, mem, "Source memory mapping failed")}
        ELSE CopyOutcomes(ctx, dst, src, n)

\* SyscallMemset storing the bytes that fit before it reports the fault
SyscallMemset_partial(addr, c, n) ==
    LET ctx == consume_gas(context, n)
        ptr == Map("Store", addr, n)
        fits == { k \in 0..n : Map("Store", addr, k).ok }
    IN  IF ~ptr.ok
        THEN IF fits = {} THEN {Fault(ctx, mem, "Memory mapping failed")}
             ELSE LET k == CHOOSE x \in fits : \A y \in fits : y <= x
                      part == Map("Store", addr, k)
                  IN  {Fault(ctx, Store(mem, part.buffer, part.off, [i \in 1..k |-> c % 256]),
                             "Memory mapping failed")}
        ELSE {Outcome(ctx, Store(mem, ptr.buffer, ptr.off, [i \in 1..n |-> c % 256]),
                      "ok", Ok0, <<>>, <<>>)}

\* SyscallMemset: c as u8 is stored n times
SyscallMemset(addr, c, n) ==
    LET ctx == consume_gas(context, n)
        ptr == Map("Store", addr, n)
    IN  IF ~ptr.ok THEN {Fault(ctx, mem, "Memory mapping failed")}
        ELSE {Outcome(ctx, Store(mem, ptr.buffer, ptr.off, [i \in 1..n |-> c % 256]),
                      "ok", Ok0, <<>>, <<>>)}

\* slice_cmp on bytes read as i8
AsI8(b) == IF b >= 128 THEN b - 256 ELSE b
RECURSIVE slice_cmp_signed(_, _)
slice_cmp_signed(a, b) ==
    IF a = <<>> \/ b = <<>>
    THEN (IF a = <<>> /\ b = <<>> THEN 0 ELSE IF a = <<>> THEN -1 ELSE 1)
    ELSE IF AsI8(Head(a)) < AsI8(Head(b)) THEN -1
    ELSE IF AsI8(Head(a)) > AsI8(Head(b)) THEN 1
    ELSE slice_cmp_signed(Tail(a), Tail(b))

\* <[u8] as Ord>::cmp: lexicographic on unsigned bytes, then on length
RECURSIVE slice_cmp(_, _)
slice_cmp(a, b) ==
    IF a = <<>> \/ b = <<>>
    THEN (IF a = <<>> /\ b = <<>> THEN 0 ELSE IF a = <<>> THEN -1 ELSE 1)
    ELSE IF Head(a) < Head(b) THEN -1
    ELSE IF Head(a) > Head(b) THEN 1
    ELSE slice_cmp(Tail(a), Tail(b))

\* SyscallMemcmp
SyscallMemcmp(addr1, addr2, n) ==
    LET ctx == consume_gas(context, n)
        ptr1 == Map("Load", addr1, n)
        ptr2 == Map("Load", addr2, n)
    IN  IF ~ptr1.ok THEN {Fault(ctx, mem, "First memory mapping failed")}
        ELSE IF ~ptr2.ok THEN {Fault(ctx, mem, "Second memory mapping failed")}
        ELSE { Outcome(ctx, mem, "ok", I32AsU64(slice_cmp(a, b)), a, b) :
               a \in ReadChoices(mem, ptr1.buffer, ptr1.off, n),
               b \in ReadChoices(mem, ptr2.buffer, ptr2.off, n) }

\* register_syscalls
register_syscalls ==
    [name \in {"sol_log_", "abort", "sol_panic_", "sol_memcpy_", "sol_memmove_",
               "sol_memset_", "sol_memcmp_"} |->
        CASE name = "sol_log_" -> "SyscallLog"
          [] name = "abort" -> "SyscallAbort"
          [] name = "sol_panic_" -> "SyscallAbort"
          [] name = "sol_memcpy_" -> "SyscallMemcpy"
          [] name = "sol_memmove_" -> "SyscallMemmove"
          [] name = "sol_memset_" -> "SyscallMemset"
          [] name = "sol_memcmp_" -> "SyscallMemcmp"]

---------------------------------------------------------------------------
(* SpecSer: serialize_parameters on bounded inputs *)

\* account data of n bytes: 0, 1, 2, ...
Data(n) == [i \in 1..n |-> (i - 1) % 256]

\* the accounts the inputs are drawn from: one per data length of interest,
\* with different keys, flags, balances and rent epochs
AccountSamples ==
    { Account(Key(1), TRUE, TRUE, 1000, Data(0), Key(101), FALSE, 0),
      Account(Key(2), FALSE, TRUE, 1, Data(1), Key(102), TRUE, 5),
      Account(Key(3), TRUE, FALSE, 65539, Data(63), Key(103), FALSE, 300),
      Account(Key(4), FALSE, FALSE, 0, Data(64), Key(104), FALSE, 70000),
      Account(Key(5), TRUE, TRUE, 2147483647, Data(MAX_PERMITTED_DATA_INCREASE),
              Key(105), TRUE, 2147483647) }

AccountSeqs == UNION { [1..n -> AccountSamples] : n \in 0..MaxAccounts }

InstructionSamples == { <<>>, <<1, 2, 3>> }

\* the state of the run's variables while only the serializer is exercised
RunIdle ==
    /\ pc = "idle"
    /\ registry = <<>>
    /\ ro_region = [vm_addr |-> 0, len |-> 0]
    /\ gapped = FALSE
    /\ regions = <<>>
    /\ freed = {}
    /\ mem = <<>>
    /\ context = [compute_units_remaining |-> 0, compute_units_consumed |-> 0]
    /\ call = <<>>
    /\ ncalls = 0
    /\ result = "none"
    /\ committed = <<>>

SerInit ==
    /\ build \in {"debug", "release"}
    /\ accounts \in AccountSeqs
    /\ instruction_data \in InstructionSamples
    /\ program_id = Key(200)
    /\ s = new(0, 0)
    /\ serialized_accounts = <<>>
    /\ spc = "start"
    /\ next_account = 1
    /\ RunIdle

\* where serialize_parameters is after a step that left the Serializer ser
After(ser, then) == IF ser.status = "ok" THEN then ELSE "panic"

\* lines 123-149: size pass, Serializer::new, the account count
SerBegin ==
    /\ spc = "start"
    /\ s' = begin_write(accounts, instruction_data)
    /\ spc' = After(s', "accounts")
    /\ UNCHANGED <<build, accounts, instruction_data, program_id,
                   serialized_accounts, next_account, runvars>>

\* lines 150-171: one iteration of the write loop
SerAccount ==
    /\ spc = "accounts"
    /\ next_account <= Len(accounts)
    /\ LET r == serialize_account(s, accounts[next_account])
       IN  /\ s' = r.ser
           /\ spc' = After(r.ser, "accounts")
           /\ serialized_accounts' =
                 IF r.ser.status = "ok" THEN Append(serialized_accounts, r.handle)
                 ELSE serialized_accounts
    /\ next_account' = next_account + 1
    /\ UNCHANGED <<build, accounts, instruction_data, program_id, runvars>>

\* lines 173-178: instruction data, program id, finish
SerEnd ==
    /\ spc = "accounts"
    /\ next_account > Len(accounts)
    /\ s' = end_write(s, instruction_data, program_id)
    /\ spc' = After(s', "done")
    /\ UNCHANGED <<build, accounts, instruction_data, program_id,
                   serialized_accounts, next_account, runvars>>

SerNext == SerBegin \/ SerAccount \/ SerEnd

SpecSer == SerInit /\ [][SerNext]_vars

---------------------------------------------------------------------------
(* The documented input format, read back independently of the writer *)

\* little-endian integer of a byte sequence
RECURSIVE FromLe(_)
FromLe(bytes) == IF bytes = <<>> THEN 0 ELSE Head(bytes) + 256 * FromLe(Tail(bytes))

Slice(buf, off, n) == SubSeq(buf, off + 1, off + n)

\* growth padding plus the bytes that align what follows the data to 8
PaddedLen(data_len) ==
    data_len + MAX_PERMITTED_DATA_INCREASE + AlignOffset(data_len, BPF_ALIGN_OF_U128)

\* bytes of one serialized account: marker, flags, reserved, keys, lamports,
\* data length, padded data, rent epoch
EntryLen(data_len) == 1 + 1 + 1 + 1 + 4 + 32 + 32 + 8 + 8 + PaddedLen(data_len) + 8

\* offset of account i's entry in the documented layout
RECURSIVE EntryOffset(_, _)
EntryOffset(accts, i) ==
    IF i = 1 THEN 8
    ELSE EntryOffset(accts, i - 1) + EntryLen(Len(accts[i - 1].data))

\* documented total: count, entries, instruction length and bytes, program id
DocumentedSize(accts, idata) ==
    EntryOffset(accts, Len(accts) + 1) + 8 + Len(idata) + 32

\* the account read at offset off, and the offset that follows it
ParseEntry(buf, off) ==
    LET data_len == FromLe(Slice(buf, off + 80, 8))
        pad == PaddedLen(data_len) - data_len
    IN  [ok |-> /\ off + 88 <= Len(buf)
                /\ off + EntryLen(data_len) <= Len(buf)
                /\ buf[off + 1] = 255
                /\ Slice(buf, off + 4, 4) = <<0, 0, 0, 0>>
                /\ Slice(buf, off + 88 + data_len, pad) = Zeros(pad),
         account |-> Account(Slice(buf, off + 8, 32), buf[off + 2] = 1, buf[off + 3] = 1,
                             FromLe(Slice(buf, off + 72, 8)),
                             Slice(buf, off + 88, data_len), Slice(buf, off + 40, 32),
                             buf[off + 4] = 1,
                             FromLe(Slice(buf, off + 88 + PaddedLen(data_len), 8))),
         next |-> off + EntryLen(data_len)]

RECURSIVE ParseEntries(_, _, _)
ParseEntries(buf, off, n) ==
    IF n = 0 THEN [ok |-> TRUE, accounts |-> <<>>, next |-> off]
    ELSE LET e == ParseEntry(buf, off)
         IN  IF ~e.ok THEN [ok |-> FALSE, accounts |-> <<>>, next |-> off]
             ELSE LET r == ParseEntries(buf, e.next, n - 1)
                  IN  [ok |-> r.ok, accounts |-> <<e.account>> \o r.accounts,
                       next |-> r.next]

\* the whole buffer read back
ParseInput(buf) ==
    IF Len(buf) < 8 THEN [ok |-> FALSE]
    ELSE LET r == ParseEntries(buf, 8, FromLe(Slice(buf, 0, 8)))
             ilen == FromLe(Slice(buf, r.next, 8))
         IN  IF ~r.ok \/ r.next + 8 > Len(buf) \/ r.next + 8 + ilen + 32 # Len(buf)
             THEN [ok |-> FALSE]
             ELSE [ok |-> TRUE, accounts |-> r.accounts,
                   instruction_data |-> Slice(buf, r.next + 8, ilen),
                   program_id |-> Slice(buf, r.next + 8 + ilen, 32)]

---------------------------------------------------------------------------
(* Claims about the serializer, checked under SpecSer *)

\* C1: when serialize_parameters has written its last field, the size computed
\* by the size pass (the capacity of the buffer) equals the number of bytes
\* written, for every account sequence and instruction-data length.
C1_SizeWriteParity ==
    spc = "done" => s.capacity = Len(s.buffer)

\* the data lengths and account counts the round-trip claim names
RoundTripInput ==
    /\ Len(accounts) \in {0, 1, 3}
    /\ \A i \in 1..Len(accounts) :
          Len(accounts[i].data) \in {0, 1, 63, MAX_PERMITTED_DATA_INCREASE}

\* C5: serializing 0, 1 or 3 accounts with data lengths 0, 1, 63 or the growth
\* padding constant completes, and reading the buffer back in the documented
\* field order gives the same accounts, in order.
C5_RoundTrip ==
    RoundTripInput =>
        /\ spc # "panic"
        /\ spc = "done" =>
              LET p == ParseInput(s.buffer)
              IN  p.ok /\ p.accounts = accounts

\* C6: the offset at which an account's rent epoch is written, which is the
\* offset that follows its data and growth padding, is a multiple of 8.  The
\* rent epoch is the last 8 bytes of a loop iteration, so after the iteration
\* it sits at Len(buffer) - 8.
C6_RentEpochAligned ==
    (spc = "accounts" /\ next_account > 1) =>
        /\ (Len(s.buffer) - 8) % 8 = 0
        /\ Len(s.buffer) - 8 =
              EntryOffset(accounts, next_account - 1) + 88
                  + PaddedLen(Len(accounts[next_account - 1].data))

\* an account whose data length is not a multiple of 8 has been written
C6_Witness ==
    /\ spc = "accounts"
    /\ next_account > 2
    /\ Len(accounts[1].data) % 8 # 0
    /\ Len(accounts[next_account - 1].data) % 8 # 0

\* C10: one handle per written account, in input order; its four addresses are
\* MM_INPUT_START plus the offsets at which the identifier, owner, lamports and
\* data of that account lie in the buffer, and original_data_len is the data
\* length before padding.
C10_HandleAddresses ==
    /\ spc = "accounts" => Len(serialized_accounts) = next_account - 1
    /\ spc = "done" => Len(serialized_accounts) = Len(accounts)
    /\ \A i \in 1..Len(serialized_accounts) :
          LET h == serialized_accounts[i]
              a == accounts[i]
              off == EntryOffset(accounts, i)
          IN  /\ h.public_key_addr = MM_INPUT_START + off + 8
              /\ h.owner_key_addr = MM_INPUT_START + off + 40
              /\ h.lamports_addr = MM_INPUT_START + off + 72
              /\ h.data_addr = MM_INPUT_START + off + 88
              /\ h.original_data_len = Len(a.data)
              /\ Slice(s.buffer, h.public_key_addr - MM_INPUT_START, 32) = a.pubkey
              /\ Slice(s.buffer, h.owner_key_addr - MM_INPUT_START, 32) = a.owner
              /\ Slice(s.buffer, h.lamports_addr - MM_INPUT_START, 8) = LeBytes(a.lamports, 8)
              /\ Slice(s.buffer, h.data_addr - MM_INPUT_START, Len(a.data)) = a.data

\* three accounts of different data lengths have been serialized
C10_Witness ==
    /\ spc = "done"
    /\ Len(serialized_accounts) = 3
    /\ Len(accounts[1].data) = 1
    /\ Len(accounts[2].data) = 63
    /\ Len(accounts[3].data) = 64

\* the end-to-end scenario: account A without data, then account B with 64
\* bytes of data, and the instruction data 1, 2, 3
EndToEndInput ==
    /\ Len(accounts) = 2
    /\ Len(accounts[1].data) = 0
    /\ Len(accounts[2].data) = 64
    /\ instruction_data = <<1, 2, 3>>

\* bytes of an entry before its data: marker, three flags, four reserved
\* bytes, two keys, lamports, data length
EntryHeaderLen == 1 + 1 + 1 + 1 + 4 + 32 + 32 + 8 + 8

\* C11 as stated: in the end-to-end scenario the data address of A is the
\* data address of B minus A's padded segment (data length plus growth padding
\* plus alignment padding).
C11_DataAddressOriginal ==
    (EndToEndInput /\ Len(serialized_accounts) = 2) =>
        serialized_accounts[1].data_addr =
            serialized_accounts[2].data_addr - PaddedLen(Len(accounts[1].data))

\* C11 amended: in the end-to-end scenario the serialization completes, and
\* the data address of A is the data address of B minus A's padded segment,
\* A's rent epoch (8 bytes) and the fields of B that precede B's data.
C11_DataAddressRelation ==
    EndToEndInput =>
        /\ spc # "panic"
        /\ Len(serialized_accounts) = 2 =>
              /\ serialized_accounts[1].data_addr = MM_INPUT_START + 8 + EntryHeaderLen
              /\ serialized_accounts[1].data_addr =
                    serialized_accounts[2].data_addr
                        - (PaddedLen(Len(accounts[1].data)) + 8 + EntryHeaderLen)

\* the end-to-end scenario has been serialized to its end, assertions compiled in
C11_Witness ==
    /\ EndToEndInput
    /\ build = "debug"
    /\ spc = "done"
    /\ Len(serialized_accounts) = 2
    /\ accounts[1].lamports = 1000
    /\ accounts[2].lamports = 0

\* C14: the write pass never stores a byte past the capacity the size pass
\* computed; when the passes disagree, serialize_parameters stops with a
\* failure instead of completing.
C14_FailFast ==
    /\ Len(s.buffer) <= s.capacity
    /\ ~s.overrun
    /\ spc = "done" => size_pass(accounts, instruction_data) = Len(s.buffer)

---------------------------------------------------------------------------
(* Spec: one run of main *)

Buffers == {"code", "stack", "heap", "input"}

\* what the loader may return as the read-only region: its length, which
\* depends on the image; the last one does not fit its slot
RoSamples == { [vm_addr |-> MM_RODATA_START, len |-> n] : n \in {64, MM_REGION_SIZE + 8} }

\* arguments the bytecode may pass to a syscall
AddrSamples ==
    { 0, MM_RODATA_START, MM_STACK_START + STACK_FRAME_SIZE,
      MM_HEAP_START, MM_HEAP_START + 1, MM_HEAP_START + HEAP_SIZE - 1,
      MM_INPUT_START + 16 }
LenSamples == 0..MaxLen
ValueSamples == {255, 321}
\* amounts the engine may charge for the instructions of a step
ConsumeSamples == {1, COMPUTE_BUDGET - 1, COMPUTE_BUDGET + 1}

NoCall == [name |-> "none", args |-> <<>>, units |-> 0, status |-> "none",
           ret |-> <<>>, slice1 |-> <<>>, slice2 |-> <<>>]

Init ==
    /\ build = "release"
    /\ accounts = <<>>
    /\ instruction_data = <<>>
    /\ program_id = <<>>
    /\ s = new(0, 0)
    /\ serialized_accounts = <<>>
    /\ spc = "start"
    /\ next_account = 1
    /\ pc = "start"
    /\ registry = <<>>
    /\ ro_region = [vm_addr |-> 0, len |-> 0]
    /\ gapped = FALSE
    /\ regions = <<>>
    /\ freed = {}
    /\ mem = [b \in Buffers |-> <<>>]
    /\ context = [compute_units_remaining |-> 0, compute_units_consumed |-> 0]
    /\ call = NoCall
    /\ ncalls = 0
    /\ result = "none"
    /\ committed = <<>>

\* main, line 276: register_syscalls(&mut loader).expect(..); the seven names
\* are distinct, so registration succeeds
RegisterSyscalls ==
    /\ pc = "start"
    /\ registry' = register_syscalls
    /\ pc' = "registered"
    /\ UNCHANGED <<servars, ro_region, gapped, regions, freed, mem, context, call,
                   ncalls, result, committed>>

\* main, lines 278-292: Executable::from_elf succeeded
LoadExecutable ==
    /\ pc = "registered"
    /\ \E ro \in RoSamples, g \in BOOLEAN :
          /\ ro_region' = ro
          /\ gapped' = g
    /\ pc' = "loaded"
    /\ UNCHANGED <<servars, registry, regions, freed, mem, context, call, ncalls,
                   result, committed>>

\* main, lines 286-288: Executable::from_elf failed
LoadExecutableFails ==
    /\ pc = "registered"
    /\ pc' = "panic"
    /\ UNCHANGED <<servars, registry, ro_region, gapped, regions, freed, mem, context,
                   call, ncalls, result, committed>>

\* main, lines 294-303: stack and heap are allocated, the program id is parsed,
\* the (empty) parameters are serialized.  The let pattern binds only the
\* regions: the buffer and the handles are dropped when the statement ends.
SerializeInput ==
    /\ pc = "loaded"
    /\ LET pid == PubkeyTryFrom(PROGRAM_ID_TEXT)
           r == serialize_parameters(<<>>, <<>>, pid.bytes)
       IN  IF ~pid.ok
           THEN /\ pc' = "panic"
                /\ UNCHANGED <<program_id, s, serialized_accounts, spc, freed>>
           ELSE /\ program_id' = pid.bytes
                /\ s' = r.ser
                /\ serialized_accounts' = r.handles
                /\ spc' = After(r.ser, "done")
                /\ freed' = IF r.ser.status = "ok" THEN freed \cup {"input"} ELSE freed
                /\ pc' = After(r.ser, "serialized")
    /\ UNCHANGED <<build, accounts, instruction_data, next_account, registry, ro_region,
                   gapped, regions, mem, context, call, ncalls, result, committed>>

\* Config::stack_size()
stack_size == STACK_FRAME_SIZE * MAX_CALL_DEPTH

\* main_regions with the heap placed at the stack's base
main_regions_heap_at_stack ==
    << [vm_addr |-> ro_region.vm_addr, len |-> ro_region.len, span |-> ro_region.len,
        gap |-> 0, writable |-> FALSE, buffer |-> "code"],
       [vm_addr |-> MM_STACK_START, len |-> stack_size,
        span |-> IF gapped THEN 2 * stack_size ELSE stack_size,
        gap |-> IF gapped THEN STACK_FRAME_SIZE ELSE 0,
        writable |-> TRUE, buffer |-> "stack"],
       [vm_addr |-> MM_STACK_START, len |-> HEAP_SIZE, span |-> HEAP_SIZE,
        gap |-> 0, writable |-> TRUE, buffer |-> "heap"] >>
    \o s.regions

\* main, lines 305-320: the region vector
main_regions ==
    << [vm_addr |-> ro_region.vm_addr, len |-> ro_region.len, span |-> ro_region.len,
        gap |-> 0, writable |-> FALSE, buffer |-> "code"],
       [vm_addr |-> MM_STACK_START, len |-> stack_size,
        span |-> IF gapped THEN 2 * stack_size ELSE stack_size,
        gap |-> IF gapped THEN STACK_FRAME_SIZE ELSE 0,
        writable |-> TRUE, buffer |-> "stack"],
       [vm_addr |-> MM_HEAP_START, len |-> HEAP_SIZE, span |-> HEAP_SIZE,
        gap |-> 0, writable |-> TRUE, buffer |-> "heap"] >>
    \o s.regions

BuildRegions ==
    /\ pc = "serialized"
    /\ regions' = main_regions
    /\ pc' = "regions"
    /\ UNCHANGED <<servars, registry, ro_region, gapped, freed, mem, context, call,
                   ncalls, result, committed>>

\* main, lines 322-325: what the match on MemoryMapping::new does
mapping_pc(ok) == IF ok THEN "mapped" ELSE "panic"

NewMapping ==
    /\ pc = "regions"
    /\ mapping_pc(MemoryMappingNew(regions)) = "mapped"
    /\ pc' = "mapped"
    /\ UNCHANGED <<servars, registry, ro_region, gapped, regions, freed, mem, context,
                   call, ncalls, result, committed>>

NewMappingFails ==
    /\ pc = "regions"
    /\ mapping_pc(MemoryMappingNew(regions)) = "panic"
    /\ pc' = "panic"
    /\ UNCHANGED <<servars, registry, ro_region, gapped, regions, freed, mem, context,
                   call, ncalls, result, committed>>

\* main, lines 327-337: the context and the VM
StartVm ==
    /\ pc = "mapped"
    /\ context' = [compute_units_remaining |-> COMPUTE_BUDGET, compute_units_consumed |-> 0]
    /\ pc' = "executing"
    /\ UNCHANGED <<servars, registry, ro_region, gapped, regions, freed, mem, call,
                   ncalls, result, committed>>

\* the engine charges the meter for instructions it executed
VmConsume ==
    /\ pc = "executing"
    /\ ncalls < MaxCalls
    /\ \E amount \in ConsumeSamples :
          /\ context' = consume(context, amount)
          /\ call' = [NoCall EXCEPT !.name = "consume", !.args = <<amount>>,
                                    !.units = amount, !.status = "ok"]
    /\ ncalls' = ncalls + 1
    /\ UNCHANGED <<servars, pc, registry, ro_region, gapped, regions, freed, mem,
                   result, committed>>

\* the engine invokes the syscall registered as name; o is its outcome.  Ok
\* resumes the bytecode, Err ends execute_program, a panic ends the process.
Invoke(name, args, units, o) ==
    /\ context' = o.context
    /\ mem' = o.mem
    /\ call' = [name |-> name, args |-> args, units |-> units, status |-> o.status,
                ret |-> o.ret, slice1 |-> o.slice1, slice2 |-> o.slice2]
    /\ ncalls' = ncalls + 1
    /\ pc' = CASE o.status = "ok" -> "executing"
               [] o.status = "panic" -> "panic"
               [] OTHER -> "finished"
    /\ result' = IF o.status \in {"ok", "panic"} THEN result ELSE "err"
    /\ UNCHANGED <<servars, registry, ro_region, gapped, regions, freed, committed>>

Registered(impl) == { name \in DOMAIN registry : registry[name] = impl }

CallLog ==
    /\ pc = "executing"
    /\ ncalls < MaxCalls
    /\ \E name \in Registered("SyscallLog"), addr \in AddrSamples, len \in LenSamples :
          \E o \in SyscallLog(addr, len) : Invoke(name, <<addr, len>>, 1, o)

CallAbort ==
    /\ pc = "executing"
    /\ ncalls < MaxCalls
    /\ \E name \in Registered("SyscallAbort"), arg1 \in {0, 1} :
          \E o \in SyscallAbort(arg1, 0, 0) : Invoke(name, <<arg1, 0, 0>>, 0, o)

CallMemcpy ==
    /\ pc = "executing"
    /\ ncalls < MaxCalls
    /\ \E name \in Registered("SyscallMemcpy"), dst \in AddrSamples, src \in AddrSamples,
          n \in LenSamples :
          \E o \in SyscallMemcpy(dst, src, n) : Invoke(name, <<dst, src, n>>, n, o)

CallMemmove ==
    /\ pc = "executing"
    /\ ncalls < MaxCalls
    /\ \E name \in Registered("SyscallMemmove"), dst \in AddrSamples, src \in AddrSamples,
          n \in LenSamples :
          \E o \in SyscallMemmove(dst, src, n) : Invoke(name, <<dst, src, n>>, n, o)

CallMemset ==
    /\ pc = "executing"
    /\ ncalls < MaxCalls
    /\ \E name \in Registered("SyscallMemset"), addr \in AddrSamples, c \in ValueSamples,
          n \in LenSamples :
          \E o \in SyscallMemset(addr, c, n) : Invoke(name, <<addr, c, n>>, n, o)

CallMemcmp ==
    /\ pc = "executing"
    /\ ncalls < MaxCalls
    /\ \E name \in Registered("SyscallMemcmp"), addr1 \in AddrSamples, addr2 \in AddrSamples,
          n \in LenSamples :
          \E o \in SyscallMemcmp(addr1, addr2, n) : Invoke(name, <<addr1, addr2, n>>, n, o)

\* execute_program returns by itself: the bytecode exited, or the engine
\* stopped it (budget exhausted, a fault of the bytecode)
VmExit ==
    /\ pc = "executing"
    /\ \E r \in {"ok", "err"} : result' = r
    /\ pc' = "finished"
    /\ UNCHANGED <<servars, registry, ro_region, gapped, regions, freed, mem, context,
                   call, ncalls, committed>>

\* main, lines 340-342: the logs and env::commit(&result.is_ok())
Report ==
    /\ pc = "finished"
    /\ committed' = Append(committed, result = "ok")
    /\ pc' = "committed"
    /\ UNCHANGED <<servars, registry, ro_region, gapped, regions, freed, mem, context,
                   call, ncalls, result>>

Next ==
    \/ RegisterSyscalls
    \/ LoadExecutable
    \/ LoadExecutableFails
    \/ SerializeInput
    \/ BuildRegions
    \/ NewMapping
    \/ NewMappingFails
    \/ StartVm
    \/ VmConsume
    \/ CallLog
    \/ CallAbort
    \/ CallMemcpy
    \/ CallMemmove
    \/ CallMemset
    \/ CallMemcmp
    \/ VmExit
    \/ Report

Spec == Init /\ [][Next]_vars

---------------------------------------------------------------------------
(* SpecMeter: the compute meter of a run under sequences of charges *)

\* longest sequence of charges
MaxCharges == 3

\* amounts charged; the largest stands for the u64 amounts above the budget
ChargeSamples == {0, 1, 2, 1000, COMPUTE_BUDGET - 1, COMPUTE_BUDGET,
                  COMPUTE_BUDGET + 1, 2147483647}

MeterInit ==
    /\ build = "release"
    /\ accounts = <<>>
    /\ instruction_data = <<>>
    /\ program_id = <<>>
    /\ s = new(0, 0)
    /\ serialized_accounts = <<>>
    /\ spc = "start"
    /\ next_account = 1
    /\ pc = "executing"
    /\ registry = <<>>
    /\ ro_region = [vm_addr |-> 0, len |-> 0]
    /\ gapped = FALSE
    /\ regions = <<>>
    /\ freed = {}
    /\ mem = <<>>
    /\ context = [compute_units_remaining |-> COMPUTE_BUDGET, compute_units_consumed |-> 0]
    /\ call = NoCall
    /\ ncalls = 0
    /\ result = "none"
    /\ committed = <<>>

\* the engine's hook: ContextObject::consume
MeterConsume ==
    /\ ncalls < MaxCharges
    /\ \E amount \in ChargeSamples :
          /\ context' = consume(context, amount)
          /\ call' = [NoCall EXCEPT !.name = "consume", !.args = <<amount>>,
                                    !.units = amount, !.status = "ok"]
    /\ ncalls' = ncalls + 1
    /\ UNCHANGED <<servars, pc, registry, ro_region, gapped, regions, freed, mem,
                   result, committed>>

\* a syscall's charge: SolanaContext::consume_gas
MeterConsumeGas ==
    /\ ncalls < MaxCharges
    /\ \E units \in ChargeSamples :
          /\ context' = consume_gas(context, units)
          /\ call' = [NoCall EXCEPT !.name = "consume_gas", !.args = <<units>>,
                                    !.units = units, !.status = "ok"]
    /\ ncalls' = ncalls + 1
    /\ UNCHANGED <<servars, pc, registry, ro_region, gapped, regions, freed, mem,
                   result, committed>>

\* a direct call of SolanaContext::consume_compute_units
MeterConsumeComputeUnits ==
    /\ ncalls < MaxCharges
    /\ \E units \in ChargeSamples :
          /\ context' = consume_compute_units(context, units)
          /\ call' = [NoCall EXCEPT !.name = "consume_compute_units", !.args = <<units>>,
                                    !.units = units, !.status = "ok"]
    /\ ncalls' = ncalls + 1
    /\ UNCHANGED <<servars, pc, registry, ro_region, gapped, regions, freed, mem,
                   result, committed>>

MeterNext == MeterConsume \/ MeterConsumeGas \/ MeterConsumeComputeUnits

SpecMeter == MeterInit /\ [][MeterNext]_vars

---------------------------------------------------------------------------
(* Claims about the meter, checked under SpecMeter *)

\* C2: a charge of u with u <= remaining lowers remaining by u and raises
\* consumed by u; with u > remaining it leaves remaining 0 and raises consumed
\* by the remaining of before; neither raises an error, remaining never
\* increases and consumed never decreases.
C2_ChargeSemantics ==
    [][ ncalls' = ncalls + 1 =>
          LET u == call'.units
              r == context.compute_units_remaining
              c == context.compute_units_consumed
              r2 == context'.compute_units_remaining
              c2 == context'.compute_units_consumed
          IN  /\ u <= r => (r2 = r - u /\ c2 = c + u)
              /\ u > r => (r2 = 0 /\ c2 = c + r)
              /\ call'.status = "ok"
              /\ get_remaining(context') <= get_remaining(context)
              /\ c2 >= c
              /\ r2 >= 0 ]_vars

\* a charge above what was left, after an earlier charge that fitted
C2_Witness ==
    /\ ncalls = 2
    /\ call.units = COMPUTE_BUDGET - 1
    /\ context.compute_units_remaining = 0
    /\ context.compute_units_consumed = COMPUTE_BUDGET

---------------------------------------------------------------------------
(* Claims about a run, checked under Spec *)

MemorySyscalls == {"sol_memcpy_", "sol_memmove_", "sol_memset_", "sol_memcmp_"}
AllSyscalls == MemorySyscalls \cup {"sol_log_"}

\* some address/length pair of the call does not resolve, in the access mode
\* the syscall uses it with
Unresolved(name, args) ==
    CASE name \in {"sol_memcpy_", "sol_memmove_"} ->
            ~Map("Store", args[1], args[3]).ok \/ ~Map("Load", args[2], args[3]).ok
      [] name = "sol_memset_" -> ~Map("Store", args[1], args[3]).ok
      [] name = "sol_memcmp_" ->
            ~Map("Load", args[1], args[3]).ok \/ ~Map("Load", args[2], args[3]).ok
      [] name = "sol_log_" -> ~Map("Load", args[1], args[2]).ok
      [] OTHER -> FALSE

\* C3: a syscall whose address/length pair does not resolve returns an error
\* to the engine; the process is not terminated, and the run ends by
\* committing false.
C3_FaultsAreResults ==
    (call.name \in AllSyscalls /\ Unresolved(call.name, call.args)) =>
        /\ pc # "panic"
        /\ result = "err"
        /\ pc = "committed" => committed = <<FALSE>>

\* C4: when a pair of sol_memcpy_, sol_memmove_, sol_memset_ or sol_memcmp_
\* does not resolve, the call returns an error and no byte of any region has
\* changed; a call changes bytes only when all its pairs resolved.
C4_NoPartialEffect ==
    [][ (ncalls' = ncalls + 1 /\ call'.name \in MemorySyscalls) =>
          /\ Unresolved(call'.name, call'.args) =>
                /\ call'.status \in FaultTexts
                /\ mem' = mem
                /\ result' = "err"
                /\ pc' = "finished"
          /\ mem' # mem => ~Unresolved(call'.name, call'.args) ]_vars

\* a copy whose destination resolved and whose source did not, on a memory
\* that earlier calls have written
C4_Witness ==
    /\ call.name = "sol_memcpy_"
    /\ call.status = "Source memory mapping failed"
    /\ call.args[3] > 0
    /\ mem["heap"] # <<>>
    /\ pc = "finished"

\* the i32 in the low four bytes of a u64 return value
SignedI32(ret) ==
    IF ret[4] >= 128 THEN -(FromLe([i \in 1..4 |-> 255 - ret[i]]) + 1)
    ELSE FromLe(SubSeq(ret, 1, 4))

\* -1, 0 or 1 by the first byte at which a and b differ
FirstDifference(a, b) ==
    IF \A k \in 1..Len(a) : a[k] = b[k] THEN 0
    ELSE LET k == CHOOSE i \in 1..Len(a) :
                     a[i] # b[i] /\ \A j \in 1..(i - 1) : a[j] = b[j]
         IN  IF a[k] < b[k] THEN -1 ELSE 1

\* C7: sol_memcmp_ on two resolvable ranges of length n returns 0 when they
\* hold the same bytes (also for n = 0), else -1 or 1 by the first differing
\* byte compared unsigned; the value is the i32, sign-extended into the u64.
C7_MemcmpResult ==
    (call.name = "sol_memcmp_" /\ ~Unresolved(call.name, call.args)) =>
        LET n == call.args[3]
            a == call.slice1
            b == call.slice2
            h1 == Map("Load", call.args[1], n)
            h2 == Map("Load", call.args[2], n)
            expected == FirstDifference(a, b)
        IN  /\ call.status = "ok"
            /\ Len(a) = n /\ Len(b) = n
            /\ h1.buffer \notin freed => a = BytesAt(mem, h1.buffer, h1.off, n)
            /\ h2.buffer \notin freed => b = BytesAt(mem, h2.buffer, h2.off, n)
            /\ SignedI32(call.ret) = expected
            /\ call.ret = (IF expected < 0 THEN [i \in 1..8 |-> 255]
                           ELSE <<expected, 0, 0, 0, 0, 0, 0, 0>>)

\* two live ranges that agree on the first byte and differ on the second,
\* where the second byte of the larger range is above 127
C7_Witness ==
    /\ call.name = "sol_memcmp_"
    /\ call.status = "ok"
    /\ call.slice1 = <<0, 0>>
    /\ call.slice2 = <<0, 255>>
    /\ call.ret = [i \in 1..8 |-> 255]
    /\ Map("Load", call.args[1], 2).buffer \notin freed
    /\ Map("Load", call.args[2], 2).buffer \notin freed

\* C8: from the creation of a region until execute_program has returned, the
\* buffer behind it is allocated; the buffer serialize_parameters returned is
\* not released before then.
C8_BackingBuffersLive ==
    /\ pc \in {"serialized", "regions", "mapped", "executing"} => "input" \notin freed
    /\ pc \in {"regions", "mapped", "executing"} =>
          \A i \in 1..Len(regions) : regions[i].buffer \notin freed

StrictlyIncreasing(regs) ==
    \A i \in 1..(Len(regs) - 1) : regs[i].vm_addr < regs[i + 1].vm_addr

NonOverlapping(regs) ==
    \A i, j \in 1..Len(regs) :
        i # j => \/ regs[i].vm_addr + regs[i].span <= regs[j].vm_addr
                 \/ regs[j].vm_addr + regs[j].span <= regs[i].vm_addr

\* C9: the regions main builds are the code region, the stack at the stack
\* base, 32 KiB of heap at the heap base and the input at the input base, in
\* strictly increasing order of start address; the run gets past the
\* construction of the mapping only when no two of them overlap.
C9_LayoutNonOverlap ==
    /\ regions # <<>> =>
          /\ Len(regions) = 4
          /\ regions[1].buffer = "code"
          /\ regions[2].vm_addr = MM_STACK_START
          /\ regions[3].vm_addr = MM_HEAP_START /\ regions[3].len = 32768
          /\ regions[4].vm_addr = MM_INPUT_START
          /\ StrictlyIncreasing(regions)
    /\ pc \in {"mapped", "executing", "finished", "committed"} =>
          regions # <<>> /\ NonOverlapping(regions)
    /\ (regions # <<>> /\ ~NonOverlapping(regions)) => pc \in {"regions", "panic"}

\* a run that executes on a layout with a gapped stack
C9_Witness ==
    /\ pc = "executing"
    /\ gapped
    /\ Len(regions) = 4

\* C12: abort and sol_panic_ are registered with the same implementation; a
\* call of either returns the error "Program aborted", never a value, leaves
\* the meter as it was (0 units) and reads or writes no byte of any region.
C12_AbortBehaviour ==
    [][ /\ registry' # <<>> =>
              /\ registry'["abort"] = "SyscallAbort"
              /\ registry'["sol_panic_"] = registry'["abort"]
        /\ (ncalls' = ncalls + 1 /\ call'.name \in {"abort", "sol_panic_"}) =>
              /\ call'.status = "Program aborted"
              /\ call'.ret = NoRet
              /\ result' = "err"
              /\ pc' = "finished"
              /\ context' = context
              /\ mem' = mem
              /\ call'.slice1 = <<>> /\ call'.slice2 = <<>> ]_vars

\* sol_panic_ called with a non-zero argument, after a call that charged the
\* meter and wrote the heap
C12_Witness ==
    /\ call.name = "sol_panic_"
    /\ call.args[1] # 0
    /\ call.status = "Program aborted"
    /\ ncalls = 2
    /\ mem["heap"] # <<>>
    /\ context.compute_units_consumed = 2

\* the cost of a syscall: 1 for sol_log_, the length for the memory syscalls
SyscallCost(name, args) == IF name = "sol_log_" THEN 1 ELSE args[3]

\* C13: a call of sol_log_ charges min(1, remaining), a call of sol_memcpy_,
\* sol_memmove_, sol_memset_ or sol_memcmp_ of length n charges min(n,
\* remaining), once, whether the call then succeeds or fails; a call whose
\* cost exceeds remaining is not failed for that: its ranges resolved, it
\* performs its operation and leaves remaining 0.
C13_CostIndependentOfOutcome ==
    [][ (ncalls' = ncalls + 1 /\ call'.name \in AllSyscalls) =>
          LET cost == SyscallCost(call'.name, call'.args)
              r == context.compute_units_remaining
              resolved == ~Unresolved(call'.name, call'.args)
          IN  /\ context'.compute_units_remaining = r - Min(cost, r)
              /\ context'.compute_units_consumed =
                    context.compute_units_consumed + Min(cost, r)
              /\ (cost > r /\ resolved) =>
                    /\ context'.compute_units_remaining = 0
                    /\ call'.status \in {"ok", "Invalid UTF-8 in log message"}
                    /\ call'.name \in MemorySyscalls => call'.status = "ok"
                    /\ call'.name = "sol_memset_" =>
                          LET h == Map("Store", call'.args[1], cost)
                          IN  BytesAt(mem', h.buffer, h.off, cost) =
                                 [i \in 1..cost |-> call'.args[2] % 256] ]_vars

\* a fill of two bytes with one unit left: it is performed and the meter is empty
C13_Witness ==
    /\ call.name = "sol_memset_"
    /\ call.args[3] = 2
    /\ call.status = "ok"
    /\ ncalls = 2
    /\ context.compute_units_remaining = 0
    /\ context.compute_units_consumed = COMPUTE_BUDGET
    /\ mem["heap"] # <<>>

\* the meter holds the budget of a run: main has created the context
VmStarted ==
    context.compute_units_remaining + context.compute_units_consumed = COMPUTE_BUDGET

\* the order of the steps of main, read from what each step leaves behind, and
\* the commit: the table before the executable, the executable before the
\* regions, the regions and their mapping before the meter, the meter before
\* any step of the VM, the VM's result before the commit, one commit at most,
\* of whether execution succeeded
RunOrder ==
    /\ registry = <<>> <=> pc = "start"
    /\ ro_region.len # 0 => registry # <<>>
    /\ regions # <<>> => (ro_region.len # 0 /\ spc = "done")
    /\ VmStarted => (regions # <<>> /\ MemoryMappingNew(regions))
    /\ pc \in {"executing", "finished", "committed"} => VmStarted
    /\ pc \in {"start", "registered", "loaded", "serialized", "regions", "mapped"} => ~VmStarted
    /\ (ncalls > 0 \/ result # "none") => VmStarted
    /\ pc = "executing" => result = "none"
    /\ pc \in {"finished", "committed"} => result \in {"ok", "err"}
    /\ committed # <<>> <=> pc = "committed"
    /\ pc = "committed" => committed = <<result = "ok">>

\* C15: a run builds the syscall table, loads the executable, builds the
\* memory layout, initializes the meter to 200000 / 0, runs the VM and reports,
\* in this order and each once; the outcome is committed once, after the VM,
\* and is whether execution succeeded; a run is aborted only by a setup fault,
\* before the VM has run, and then nothing is committed.
C15_RunSequencing ==
    /\ RunOrder
    /\ pc = "panic" => (~VmStarted /\ ncalls = 0 /\ committed = <<>>)

\* C16: from remaining 200000 and consumed 0, after any sequence of consume,
\* consume_gas and consume_compute_units, remaining + consumed is 200000, so
\* consumed never exceeds 200000 (and its addition stays far below 2^64).
C16_BudgetConservation ==
    /\ context.compute_units_remaining + context.compute_units_consumed = COMPUTE_BUDGET
    /\ context.compute_units_remaining >= 0
    /\ context.compute_units_consumed >= 0
    /\ context.compute_units_consumed <= COMPUTE_BUDGET

\* three charges through the three entry points, the budget partly used
C16_Witness ==
    /\ ncalls = MaxCharges
    /\ call.name = "consume_compute_units"
    /\ context.compute_units_remaining = COMPUTE_BUDGET - 1003
    /\ context.compute_units_consumed = 1003

====
